---- MODULE Spec2Model ----
(***************************************************************************)
(* Model of the planar-angle value type of angles_utility.py / angles.py   *)
(* (class Angle) and of the functions mean_angle, angspace and             *)
(* geometric_median.                                                       *)
(*                                                                         *)
(* Numbers.  Python floats are modelled by exact arithmetic on a grid:     *)
(*   - a degree value is an integer number of degrees;                     *)
(*   - a radian value is an integer number of radian ticks, Pi ticks being *)
(*     the number pi (one tick is pi/540 rad), so that deg2rad and rad2deg *)
(*     are a multiplication and a division, exact on whole degrees;        *)
(*   - a complex number is a record [re, im] of integers in units of 1/R;  *)
(*     cos and sin are tabulated to that precision for whole degrees, and  *)
(*     atan2 answers to the nearest whole degree;                          *)
(*   - the floats angspace returns are fractions [num, den].               *)
(* Rounding below the grid (IEEE double rounding) is outside the model.    *)
(***************************************************************************)
EXTENDS Integers, Sequences, FiniteSets

VARIABLES ang,      \* the Angle object: [degree, radian, complex] (_degree, _radian, _complex)
          seeded,   \* history: the degree denoted by the last seed that was stored
          op,       \* the last operation applied ("none" before any)
          arg,      \* the arguments of the call
          ret       \* what the call returned or raised

vars == <<ang, seeded, op, arg, ret>>

(***************************************************************************)
(* Numeric substrate                                                       *)
(***************************************************************************)

\* The magnitude 1 of cmath.rect(1, ...), in complex units.
R == 10000

\* np.pi, in radian ticks.
Pi == 540

\* abs()
Abs(x) == IF x < 0 THEN -x ELSE x

\* Float division of integers, rounded to the nearest unit (b > 0).
DivRound(a, b) == (2 * a + b) \div (2 * b)

\* The square root, rounded to the nearest unit (the radius cmath.polar returns).
RECURSIVE SqrtSearch(_, _, _)
SqrtSearch(n, lo, hi) ==
    IF lo >= hi THEN lo
    ELSE LET mid == (lo + hi + 1) \div 2
         IN  IF mid * mid <= n THEN SqrtSearch(n, mid, hi)
             ELSE SqrtSearch(n, lo, mid - 1)

Sqrt(n) ==
    LET f == SqrtSearch(n, 0, 4 * R)
    IN  IF n - f * f <= f THEN f ELSE f + 1

\* sin of 0..90 degrees, in complex units (index d + 1).
SinTable ==
    << 0, 175, 349, 523, 698, 872, 1045, 1219, 1392, 1564,
       1736, 1908, 2079, 2250, 2419, 2588, 2756, 2924, 3090, 3256,
       3420, 3584, 3746, 3907, 4067, 4226, 4384, 4540, 4695, 4848,
       5000, 5150, 5299, 5446, 5592, 5736, 5878, 6018, 6157, 6293,
       6428, 6561, 6691, 6820, 6947, 7071, 7193, 7314, 7431, 7547,
       7660, 7771, 7880, 7986, 8090, 8192, 8290, 8387, 8480, 8572,
       8660, 8746, 8829, 8910, 8988, 9063, 9135, 9205, 9272, 9336,
       9397, 9455, 9511, 9563, 9613, 9659, 9703, 9744, 9781, 9816,
       9848, 9877, 9903, 9925, 9945, 9962, 9976, 9986, 9994, 9998,
       10000 >>

\* sin and cos of a whole number of degrees.
SinDeg(d) ==
    LET e == d % 360
    IN  IF e <= 90 THEN SinTable[e + 1]
        ELSE IF e <= 180 THEN SinTable[180 - e + 1]
        ELSE IF e <= 270 THEN -SinTable[e - 180 + 1]
        ELSE -SinTable[360 - e + 1]

CosDeg(d) == SinDeg(d + 90)

\* np.deg2rad and np.rad2deg: x * pi / 180 and x * 180 / pi.
deg2rad(d) == (d * Pi) \div 180

rad2deg(r) == (r * 180) \div Pi

\* cmath.rect(1, radian).
rect(radian) ==
    [re |-> CosDeg(rad2deg(radian)), im |-> SinDeg(rad2deg(radian))]

\* atan2 within the first quadrant (x >= 0, y >= 0, not both 0): the whole
\* degree in lo..hi whose direction is nearest to (x, y), found by bisection on
\* the projection x*cos(k) + y*sin(k), which rises up to that degree.
RECURSIVE Climb(_, _, _, _)
Climb(x, y, lo, hi) ==
    IF lo >= hi THEN lo
    ELSE LET mid == (lo + hi) \div 2
         IN  IF x * CosDeg(mid) + y * SinDeg(mid)
                    < x * CosDeg(mid + 1) + y * SinDeg(mid + 1)
             THEN Climb(x, y, mid + 1, hi)
             ELSE Climb(x, y, lo, mid)

\* math.atan2(im, re) in degrees, in (-180, 180]; atan2(0, 0) is 0.
Atan2Deg(z) ==
    LET d == IF z.re = 0 /\ z.im = 0 THEN 0
             ELSE IF z.re > 0 /\ z.im >= 0 THEN Climb(z.re, z.im, 0, 90)
             ELSE IF z.re <= 0 /\ z.im > 0 THEN 90 + Climb(z.im, -z.re, 0, 90)
             ELSE IF z.re < 0 /\ z.im <= 0 THEN 180 + Climb(-z.re, -z.im, 0, 90)
             ELSE 270 + Climb(-z.im, z.re, 0, 90)
    IN  IF d > 180 THEN d - 360 ELSE d

\* cmath.polar(value): the radius and the phase in radians.
polar(z) ==
    [r |-> Sqrt(z.re * z.re + z.im * z.im), ang |-> deg2rad(Atan2Deg(z))]

\* value / r for a complex value and a real r > 0.
CDivReal(z, r) == [re |-> DivRound(z.re * R, r), im |-> DivRound(z.im * R, r)]

\* sum / n for a complex sum and an integer n > 0.
CDivInt(z, n) == [re |-> DivRound(z.re, n), im |-> DivRound(z.im, n)]

CAdd(z, w) == [re |-> z.re + w.re, im |-> z.im + w.im]

\* np.conjugate
conjugate(z) == [re |-> z.re, im |-> -z.im]

\* 0+0j
CZero == [re |-> 0, im |-> 0]

\* Python truth value of a complex number
CTruthy(z) == z.re # 0 \/ z.im # 0

(***************************************************************************)
(* class Angle                                                             *)
(***************************************************************************)

\* An optional argument: None, or a value.
None == [some |-> FALSE]

Some(v) == [some |-> TRUE, v |-> v]

\* The outcome of a call: a value, or an exception.
Return(v) == [exc |-> "none", val |-> v]

Raise(e) == [exc |-> e]

\* degree.setter
degree_setter(self, value) ==
    LET d == value % 360
        r == deg2rad(d)
    IN  Return([degree |-> d, radian |-> r, complex |-> rect(r)])

\* radian.setter
radian_setter(self, value) ==
    LET r == value % (2 * Pi)
    IN  Return([degree |-> rad2deg(r), radian |-> r, complex |-> rect(r)])

\* complex.setter with the singularity "handled" by storing 1+0j and carrying
\* on: the other two fields keep their old values.
complex_setter_torn(self, value) ==
    LET p == polar(value)
    IN  IF p.r = 0
        THEN Return([degree |-> self.degree, radian |-> self.radian,
                     complex |-> [re |-> R, im |-> 0]])
        ELSE LET r == p.ang % (2 * Pi)
             IN  Return([degree |-> rad2deg(r), radian |-> r,
                         complex |-> CDivReal(value, p.r)])

\* complex.setter: with r = 0 the statement self._complex(1+0j) calls a complex
\* number, which raises TypeError before any field is assigned.
complex_setter(self, value) ==
    LET p == polar(value)
    IN  IF p.r = 0 THEN Raise("TypeError")
        ELSE LET r == p.ang % (2 * Pi)
             IN  Return([degree |-> rad2deg(r), radian |-> r,
                         complex |-> CDivReal(value, p.r)])

\* Angle.__init__: the seed is chosen by the truth value of the arguments.
Angle(deg, rad, complex) ==
    IF complex.some /\ CTruthy(complex.v) THEN complex_setter(None, complex.v).val
    ELSE IF rad.some /\ rad.v # 0 THEN radian_setter(None, rad.v).val
    ELSE IF deg.some /\ deg.v # 0 THEN degree_setter(None, deg.v).val
    ELSE degree_setter(None, 0).val

\* Angle.sdegree (both copies)
sdegree(self) == IF self.degree < 180 THEN self.degree ELSE self.degree - 360

\* Angle.sradian of angles_utility.py
sradian(self) == IF self.radian < Pi THEN self.radian ELSE self.radian - 2 * Pi

\* Angle.sradian of angles.py, which tests self.degree < np.pi: a number of
\* degrees against 3.14159..., decided for whole degrees by 355/113.
sradian_angles(self) ==
    IF self.degree * 113 < 355 THEN self.radian ELSE self.radian - 2 * Pi

\* A right operand: an Angle (isinstance(value, Angle)), or a scalar.
AngleOperand(a) == [isAngle |-> TRUE, angle |-> a]

Scalar(v) == [isAngle |-> FALSE, value |-> v]

\* Angle.__add__
__add__(self, value) ==
    LET deg_res == IF value.isAngle THEN value.angle.degree + self.degree
                   ELSE value.value + self.degree
    IN  Angle(Some(deg_res), None, None)

\* __sub__ as self - value
__sub__swapped(self, value) ==
    LET deg_res == IF value.isAngle THEN self.degree - value.angle.degree
                   ELSE self.degree - value.value
    IN  Angle(Some(deg_res), None, None)

\* Angle.__sub__
__sub__(self, value) ==
    LET deg_res == IF value.isAngle THEN value.angle.degree - self.degree
                   ELSE value.value - self.degree
    IN  Angle(Some(deg_res), None, None)

\* Angle.__neg__
__neg__(self) == Angle(None, None, Some(conjugate(self.complex)))

\* np.isclose(a, b, rtol=1e-12) on whole degrees: |a - b| <= atol + rtol * |b|
\* with numpy's atol of 1e-8, a bound that is below one degree.
isclose(a, b) == Abs(a - b) <= (1 + Abs(b) \div 10000) \div 100000000

\* __eq__ without the fold of the 0/360 border
__eq__nofold(self, value) ==
    LET comparison_value == IF value.isAngle THEN value.angle.degree ELSE value.value
        diff == Abs(comparison_value - self.degree)
    IN  isclose(diff, 0)

\* Angle.__eq__
__eq__(self, value) ==
    LET comparison_value == IF value.isAngle THEN value.angle.degree ELSE value.value
        diff == Abs(comparison_value - self.degree)
    IN  isclose(IF diff > 359 THEN diff - 360 ELSE diff, 0)

\* Angle.__ne__
__ne__(self, value) == ~__eq__(self, value)

\* Angle._gt
_gt(self, value) ==
    IF value.isAngle THEN sdegree(self) > sdegree(value.angle)
    ELSE LET v == value.value % 360
         IN  sdegree(self) > (IF v > 180 THEN v - 360 ELSE v)

\* Angle.__gt__
__gt__(self, value) == IF __eq__(self, value) THEN FALSE ELSE _gt(self, value)

\* Angle.__ge__
__ge__(self, value) == IF __eq__(self, value) THEN TRUE ELSE _gt(self, value)

\* Angle._lt
_lt(self, value) ==
    IF value.isAngle THEN sdegree(self) < sdegree(value.angle)
    ELSE LET v == value.value % 360
         IN  sdegree(self) < (IF v > 180 THEN v - 360 ELSE v)

\* Angle.__lt__
__lt__(self, value) == IF __eq__(self, value) THEN FALSE ELSE _lt(self, value)

\* Angle.__le__
__le__(self, value) == IF __eq__(self, value) THEN TRUE ELSE _lt(self, value)

\* Angle.__abs__
__abs__(self) == IF self.complex.im < 0 THEN __neg__(self) ELSE self

(***************************************************************************)
(* External functions                                                      *)
(***************************************************************************)

\* The loop of mean_angle from element i on: elements that are not Angles are
\* skipped, the others counted and their unit vectors summed.
RECURSIVE MeanLoop(_, _, _)
MeanLoop(angle_list, i, acc) ==
    IF i > Len(angle_list) THEN acc
    ELSE IF ~angle_list[i].isAngle THEN MeanLoop(angle_list, i + 1, acc)
    ELSE MeanLoop(angle_list, i + 1,
                  [number_of_elements |-> acc.number_of_elements + 1,
                   sum_of_angles |-> CAdd(acc.sum_of_angles, angle_list[i].angle.complex)])

\* mean_angle: sum / 0 raises ZeroDivisionError.
mean_angle(angle_list) ==
    LET acc == MeanLoop(angle_list, 1, [number_of_elements |-> 0, sum_of_angles |-> CZero])
    IN  IF acc.number_of_elements = 0 THEN Raise("ZeroDivisionError")
        ELSE Return(Angle(None, None,
                          Some(CDivInt(acc.sum_of_angles, acc.number_of_elements))))

\* A float that is a quotient of integers: num / den, den > 0.
QDiv(a, b) == [num |-> a, den |-> b]

QMulInt(i, q) == [num |-> i * q.num, den |-> q.den]

QAddInt(a, q) == [num |-> a * q.den + q.num, den |-> q.den]

QMod(q, m) == [num |-> q.num % (m * q.den), den |-> q.den]

\* angspace dividing the sweep by steps instead of steps - 1
angspace_offbyone(start, end, steps) ==
    IF steps.type # "int" \/ steps.val < 2 THEN Raise("ValueError")
    ELSE LET sweepsize == (end.degree - start.degree) % 360
             increment == QDiv(sweepsize, steps.val)
         IN  Return([k \in 1 .. steps.val |->
                        QMod(QAddInt(start.degree, QMulInt(k - 1, increment)), 360)])

\* angspace; steps is [type, val], type(steps) being "int" or "float".
angspace(start, end, steps) ==
    IF steps.type # "int" \/ steps.val < 2 THEN Raise("ValueError")
    ELSE LET sweepsize == (end.degree - start.degree) % 360
             increment == QDiv(sweepsize, steps.val - 1)
         IN  Return([k \in 1 .. steps.val |->
                        QMod(QAddInt(start.degree, QMulInt(k - 1, increment)), 360)])

\* sum([(abs(angle-c)).degree for c in angle_list]) from element i on
RECURSIVE SumDistances(_, _, _)
SumDistances(angle, angle_list, i) ==
    IF i > Len(angle_list) THEN 0
    ELSE __abs__(__sub__(angle, angle_list[i])).degree
         + SumDistances(angle, angle_list, i + 1)

\* min(distances)
RECURSIVE Min(_, _)
Min(distances, i) ==
    IF i = Len(distances) THEN distances[i]
    ELSE LET m == Min(distances, i + 1)
         IN  IF distances[i] <= m THEN distances[i] ELSE m

\* [angle_list[index] for index in min_idx], from index i on
RECURSIVE SelectMin(_, _, _, _)
SelectMin(angle_list, distances, min_value, i) ==
    IF i > Len(angle_list) THEN <<>>
    ELSE IF distances[i] = min_value
         THEN <<angle_list[i]>> \o SelectMin(angle_list, distances, min_value, i + 1)
         ELSE SelectMin(angle_list, distances, min_value, i + 1)

\* geometric_median returning the mean of the whole list
geometric_median_meanall(angle_list) ==
    IF Len(angle_list) = 0 THEN Raise("ValueError") ELSE mean_angle(angle_list)

\* geometric_median; min() of an empty list raises ValueError.
geometric_median(angle_list) ==
    LET distances == [k \in 1 .. Len(angle_list) |->
                         SumDistances(angle_list[k].angle, angle_list, 1)]
    IN  IF Len(angle_list) = 0 THEN Raise("ValueError")
        ELSE mean_angle(SelectMin(angle_list, distances, Min(distances, 1), 1))

(***************************************************************************)
(* Inputs                                                                  *)
(***************************************************************************)

\* The largest magnitude of a complex seed (it is MaxMag times a unit vector).
MaxMag == 2

\* Degree values given to the constructor and to the degree setter.
CtorDegrees == {-20, 0, 90, 360}

SeedDegrees == {-90, -20, 0, 1, 3, 4, 45, 90, 179, 180, 181, 270, 359, 360, 405}

\* Radian values, in ticks: multiples of pi/4 from -pi/2 to 5pi/2.
CtorRadians == {0, Pi \div 2, 2 * Pi}

SeedRadians == {k * (Pi \div 4) : k \in -2 .. 10}

\* Complex values: mag times the unit vector of direction dir (degrees).
CtorComplex == {[dir |-> 0, mag |-> 0], [dir |-> 90, mag |-> 1], [dir |-> 45, mag |-> MaxMag]}

SeedComplex == [dir : {0, 45, 90, 135, 180, 200, 270, 315}, mag : 0 .. MaxMag]

CValue(c) == [re |-> c.mag * CosDeg(c.dir), im |-> c.mag * SinDeg(c.dir)]

Opt(S) == {None} \cup {Some(v) : v \in S}

OptComplex(c) == IF c.some THEN Some(CValue(c.v)) ELSE None

(***************************************************************************)
(* The angle a seed denotes, stated without the code's conversions         *)
(***************************************************************************)

DenotedByDegree(v) == CHOOSE d \in 0 .. 359 : (d - v) % 360 = 0

DenotedByRadian(v) == CHOOSE d \in 0 .. 359 : (d * Pi - v * 180) % (360 * Pi) = 0

DenotedByComplex(c) == c.dir % 360

(***************************************************************************)
(* Specification Spec: one Angle object, constructed and then re-seeded    *)
(* through its setters and read through its signed views.                  *)
(***************************************************************************)

\* Angle(deg=..., rad=..., complex=...): the history variable records the seed the
\* constructor stored.
Init ==
    \E d \in Opt(CtorDegrees), r \in Opt(CtorRadians), c \in Opt(CtorComplex) :
        /\ arg = [deg |-> d, rad |-> r, complex |-> c]
        /\ op = "init"
        /\ ang = Angle(d, r, OptComplex(c))
        /\ ret = Return(ang)
        /\ seeded = IF c.some /\ CTruthy(CValue(c.v)) THEN DenotedByComplex(c.v)
                    ELSE IF r.some /\ r.v # 0 THEN DenotedByRadian(r.v)
                    ELSE IF d.some /\ d.v # 0 THEN DenotedByDegree(d.v)
                    ELSE 0

\* a.degree = v
SetDegree ==
    \E v \in SeedDegrees :
        LET out == degree_setter(ang, v)
        IN  /\ op' = "set_degree"
            /\ arg' = [value |-> v]
            /\ ret' = out
            /\ ang' = out.val
            /\ seeded' = DenotedByDegree(v)

\* a.radian = v
SetRadian ==
    \E v \in SeedRadians :
        LET out == radian_setter(ang, v)
        IN  /\ op' = "set_radian"
            /\ arg' = [value |-> v]
            /\ ret' = out
            /\ ang' = out.val
            /\ seeded' = DenotedByRadian(v)

\* a.complex = v; an assignment that raises leaves the object as the setter left it.
SetComplex ==
    \E c \in SeedComplex :
        LET out == complex_setter(ang, CValue(c))
        IN  /\ op' = "set_complex"
            /\ arg' = [value |-> c]
            /\ ret' = IF out.exc = "none" THEN out ELSE Raise(out.exc)
            /\ ang' = IF out.exc = "none" THEN out.val ELSE ang
            /\ seeded' = IF out.exc = "none" THEN DenotedByComplex(c) ELSE seeded

\* a.sdegree, a.sradian (angles_utility.py) and a.sradian (angles.py)
ReadSigned ==
    /\ op' = "signed"
    /\ arg' = [self |-> ang]
    /\ ret' = Return([sdegree |-> sdegree(ang), sradian |-> sradian(ang),
                      sradian_angles |-> sradian_angles(ang)])
    /\ UNCHANGED <<ang, seeded>>

Next == SetDegree \/ SetRadian \/ SetComplex \/ ReadSigned

Spec == Init /\ [][Next]_vars

(***************************************************************************)
(* Specification OpSpec: one operator applied to an Angle and an operand.  *)
(***************************************************************************)

\* The largest number of whole turns added to or taken from a scalar operand.
MaxTurns == 2

SelfDegrees == {-20, 0, 10, 20, 45, 90, 179, 180, 181, 350, 359}

OperandDegrees == {0, 10, 90, 179, 180, 181, 350, 359}

ScalarBase == {-180, -20, -1, 0, 10, 20, 70, 179, 180, 181, 350}

Scalars == {v + 360 * k : v \in ScalarBase, k \in 0 .. MaxTurns}

AngleOfDegree(d) == Angle(Some(d), None, None)

Operands ==
    {AngleOperand(AngleOfDegree(d)) : d \in OperandDegrees} \cup {Scalar(v) : v \in Scalars}

OpInit ==
    \E d \in SelfDegrees, v \in Operands :
        /\ ang = AngleOfDegree(d)
        /\ seeded = DenotedByDegree(d)
        /\ op = "none"
        /\ arg = v
        /\ ret = Return(None)

\* a + b
Add ==
    /\ op = "none"
    /\ op' = "add"
    /\ ret' = Return(__add__(ang, arg))
    /\ UNCHANGED <<ang, seeded, arg>>

\* a - b
Sub ==
    /\ op = "none"
    /\ op' = "sub"
    /\ ret' = Return(__sub__(ang, arg))
    /\ UNCHANGED <<ang, seeded, arg>>

\* -a
Neg ==
    /\ op = "none"
    /\ op' = "neg"
    /\ ret' = Return(__neg__(ang))
    /\ UNCHANGED <<ang, seeded, arg>>

\* abs(a)
AbsOf ==
    /\ op = "none"
    /\ op' = "abs"
    /\ ret' = Return(__abs__(ang))
    /\ UNCHANGED <<ang, seeded, arg>>

\* a == b
Eq ==
    /\ op = "none"
    /\ op' = "eq"
    /\ ret' = Return(__eq__(ang, arg))
    /\ UNCHANGED <<ang, seeded, arg>>

\* a != b
Ne ==
    /\ op = "none"
    /\ op' = "ne"
    /\ ret' = Return(__ne__(ang, arg))
    /\ UNCHANGED <<ang, seeded, arg>>

\* a > b
Gt ==
    /\ op = "none"
    /\ op' = "gt"
    /\ ret' = Return(__gt__(ang, arg))
    /\ UNCHANGED <<ang, seeded, arg>>

\* a >= b
Ge ==
    /\ op = "none"
    /\ op' = "ge"
    /\ ret' = Return(__ge__(ang, arg))
    /\ UNCHANGED <<ang, seeded, arg>>

\* a < b
Lt ==
    /\ op = "none"
    /\ op' = "lt"
    /\ ret' = Return(__lt__(ang, arg))
    /\ UNCHANGED <<ang, seeded, arg>>

\* a <= b
Le ==
    /\ op = "none"
    /\ op' = "le"
    /\ ret' = Return(__le__(ang, arg))
    /\ UNCHANGED <<ang, seeded, arg>>

OpNext == Add \/ Sub \/ Neg \/ AbsOf \/ Eq \/ Ne \/ Gt \/ Ge \/ Lt \/ Le

OpSpec == OpInit /\ [][OpNext]_vars

(***************************************************************************)
(* Specification FnSpec: one call of mean_angle, geometric_median or       *)
(* angspace on arguments drawn at the start.                               *)
(***************************************************************************)

\* The longest list given to mean_angle.
MaxMeanLen == 3

\* The longest list with repeated elements given to geometric_median.
MaxLen == 3

\* The largest steps given to angspace.
MaxSteps == 4

ListDegrees == {0, 45, 90, 180, 270, 315}

\* [AngleValue(0), 90, -90, 45, -45]
SymmetricList ==
    [k \in 1 .. 5 |-> AngleOperand(AngleOfDegree(<<0, 90, -90, 45, -45>>[k]))]

Lists(S, n) == UNION {[1 .. k -> S] : k \in 0 .. n}

ListAngles == {AngleOperand(AngleOfDegree(d)) : d \in ListDegrees}

MeanLists == Lists(ListAngles \cup {Scalar(7)}, MaxMeanLen)

\* Every list up to MaxLen, and every list of five different angles (SymmetricList
\* is one).
MedianLists ==
    Lists(ListAngles, MaxLen)
      \cup {l \in [1 .. 5 -> ListAngles] : \A i, j \in 1 .. 5 : l[i] = l[j] => i = j}

AngspaceDegrees == {-20, 0, 10, 90, 350}

\* steps: an int, or a float (val + 0.5).
StepsValues ==
    [type : {"int"}, val : -1 .. MaxSteps] \cup [type : {"float"}, val : 1 .. MaxSteps]

FnInit ==
    /\ ang = Angle(None, None, None)
    /\ seeded = 0
    /\ op = "none"
    /\ ret = Return(None)
    /\ \/ \E l \in MeanLists : arg = [fn |-> "mean_angle", angle_list |-> l]
       \/ \E l \in MedianLists : arg = [fn |-> "geometric_median", angle_list |-> l]
       \/ \E s \in AngspaceDegrees, e \in AngspaceDegrees, n \in StepsValues :
            arg = [fn |-> "angspace", start |-> AngleOfDegree(s),
                   end |-> AngleOfDegree(e), steps |-> n]

\* mean_angle(angle_list)
MeanAngle ==
    /\ op = "none"
    /\ arg.fn = "mean_angle"
    /\ op' = "mean_angle"
    /\ ret' = mean_angle(arg.angle_list)
    /\ UNCHANGED <<ang, seeded, arg>>

\* geometric_median(angle_list)
GeometricMedian ==
    /\ op = "none"
    /\ arg.fn = "geometric_median"
    /\ op' = "geometric_median"
    /\ ret' = geometric_median(arg.angle_list)
    /\ UNCHANGED <<ang, seeded, arg>>

\* angspace(start, end, steps)
Angspace ==
    /\ op = "none"
    /\ arg.fn = "angspace"
    /\ op' = "angspace"
    /\ ret' = angspace(arg.start, arg.end, arg.steps)
    /\ UNCHANGED <<ang, seeded, arg>>

FnNext == MeanAngle \/ GeometricMedian \/ Angspace

FnSpec == FnInit /\ [][FnNext]_vars

(***************************************************************************)
(* Claims about the Angle object (specification Spec)                      *)
(***************************************************************************)

\* C1: constructing an Angle seeds it from the highest-precedence argument that
\* is supplied (complex, then rad, then deg, else degree 0), a supplied zero
\* included.  A supplied complex zero denotes no angle and is left unconstrained.
C1_SeedByPresence ==
    op = "init" =>
        IF arg.complex.some
        THEN arg.complex.v.mag > 0 => ang.degree = DenotedByComplex(arg.complex.v)
        ELSE IF arg.rad.some THEN ang.degree = DenotedByRadian(arg.rad.v)
        ELSE IF arg.deg.some THEN ang.degree = DenotedByDegree(arg.deg.v)
        ELSE ang.degree = 0

C3_SignedRanges ==
    op = "signed" =>
        /\ -180 < ret.val.sdegree /\ ret.val.sdegree <= 180
        /\ (ret.val.sdegree - arg.self.degree) % 360 = 0
        /\ -Pi < ret.val.sradian /\ ret.val.sradian <= Pi
        /\ (ret.val.sradian - arg.self.radian) % (2 * Pi) = 0
        /\ -Pi < ret.val.sradian_angles /\ ret.val.sradian_angles <= Pi
        /\ (ret.val.sradian_angles - arg.self.radian) % (2 * Pi) = 0

(***************************************************************************)
(* Claims about the operators (specification OpSpec)                       *)
(***************************************************************************)

\* The degrees an operand stands for: deg(b).
OperandDegree(value) == IF value.isAngle THEN value.angle.degree ELSE value.value

\* C5: ordering against a scalar d gives what ordering against Angle(deg=d)
\* gives, for each of >, >=, < and <=.
C5_ScalarOrderAsAngle ==
    (op \in {"gt", "ge", "lt", "le"} /\ ~arg.isAngle) =>
        LET b == AngleOperand(AngleOfDegree(arg.value))
        IN  ret.val = CASE op = "gt" -> __gt__(ang, b)
                        [] op = "ge" -> __ge__(ang, b)
                        [] op = "lt" -> __lt__(ang, b)
                        [] op = "le" -> __le__(ang, b)

\* C9: a + b and a - b are new Angles of degree (deg(b) + a.degree) mod 360 and
\* (deg(b) - a.degree) mod 360, normalized in all three views, and a keeps its
\* seed; Angle(deg=-20) + 70 has degree 50.
C9_Arithmetic ==
    /\ op = "add" =>
          /\ ret.val.degree = (OperandDegree(arg) + ang.degree) % 360
          /\ ret.val = AngleOfDegree(DenotedByDegree(OperandDegree(arg) + ang.degree))
    /\ op = "sub" =>
          /\ ret.val.degree = (OperandDegree(arg) - ang.degree) % 360
          /\ ret.val = AngleOfDegree(DenotedByDegree(OperandDegree(arg) - ang.degree))
    /\ op \in {"add", "sub"} => ang.degree = seeded
    /\ (op = "add" /\ seeded = DenotedByDegree(-20) /\ arg = Scalar(70)) => ret.val.degree = 50

\* C9's case: a difference whose raw value is 0 or a multiple of 360, a not 0.
C9_Witness ==
    /\ op = "sub"
    /\ ang.degree # 0
    /\ (OperandDegree(arg) - ang.degree) % 360 = 0
    /\ ret.val.degree = 0

\* C10: a == b iff |deg(b) - a.degree|, less 360 only when above 359, is within
\* the tolerance of 0 (on whole degrees: is 0), so Angle(deg=0) == Angle(deg=350)
\* is false; a != b is the negation.
C10_Equality ==
    LET d == Abs(OperandDegree(arg) - ang.degree)
        equal == (d <= 359 /\ d = 0) \/ (d > 359 /\ d - 360 = 0)
    IN  /\ op = "eq" => ret.val = equal
        /\ op = "ne" => ret.val = ~equal
        /\ (op = "eq" /\ ang.degree = 0 /\ arg.isAngle /\ arg.angle.degree = 350)
              => ret.val = FALSE

\* C10's case: the border between 0 and 360 is absorbed (a is 359, b is -1).
C10_Witness ==
    /\ op = "eq"
    /\ ang.degree = 359
    /\ arg = Scalar(-1)
    /\ ret.val = TRUE

(***************************************************************************)
(* Claims about the functions (specification FnSpec)                       *)
(***************************************************************************)

\* C4: mean_angle signals an error, and returns no Angle, whenever the unit
\* vectors of the Angle elements it retains sum to the zero vector.
C4_AmbiguousMeanRaises ==
    (/\ op = "mean_angle"
     /\ MeanLoop(arg.angle_list, 1,
                 [number_of_elements |-> 0, sum_of_angles |-> CZero]).sum_of_angles = CZero)
        => ret.exc # "none"

\* The cost of candidate k: the sum over every element e of abs(e - c).degree,
\* from element i on.
RECURSIVE CandidateCost(_, _, _)
CandidateCost(angle_list, k, i) ==
    IF i > Len(angle_list) THEN 0
    ELSE __abs__(__sub__(angle_list[i].angle, angle_list[k])).degree
         + CandidateCost(angle_list, k, i + 1)

\* The candidates of least cost.
Tied(angle_list) ==
    {k \in 1 .. Len(angle_list) :
        \A j \in 1 .. Len(angle_list) :
            CandidateCost(angle_list, k, 1) <= CandidateCost(angle_list, j, 1)}

\* The elements whose index is in K, in the list's order, from element i on.
RECURSIVE Pick(_, _, _)
Pick(angle_list, K, i) ==
    IF i > Len(angle_list) THEN <<>>
    ELSE (IF i \in K THEN <<angle_list[i]>> ELSE <<>>) \o Pick(angle_list, K, i + 1)

C7_Angspace ==
    op = "angspace" =>
        IF arg.steps.type = "int" /\ arg.steps.val >= 2
        THEN LET n == arg.steps.val
                 sweep == (arg.end.degree - arg.start.degree) % 360
             IN  /\ ret.exc = "none"
                 /\ Len(ret.val) = n
                 /\ ret.val[1].num = arg.start.degree * ret.val[1].den
                 /\ ret.val[n].num = arg.end.degree * ret.val[n].den
                 /\ \A i \in 0 .. n - 1 :
                       /\ ret.val[i + 1].den > 0
                       /\ ret.val[i + 1].num * (n - 1)
                            = ((arg.start.degree * (n - 1) + i * sweep) % (360 * (n - 1)))
                                * ret.val[i + 1].den
        ELSE ret = Raise("ValueError")

\* C7's case: angspace(Angle(deg=0), Angle(deg=90), 3) is [0, 45, 90].
C7_Witness ==
    /\ op = "angspace"
    /\ arg.start.degree = 0 /\ arg.end.degree = 90 /\ arg.steps = [type |-> "int", val |-> 3]
    /\ ret.exc = "none"
    /\ \A i \in 1 .. 3 : ret.val[i].num = <<0, 45, 90>>[i] * ret.val[i].den

\* C8: the list angspace returns is in ascending order.
C8_Ascending ==
    (op = "angspace" /\ ret.exc = "none") =>
        \A i \in 1 .. Len(ret.val) - 1 :
            ret.val[i].num * ret.val[i + 1].den <= ret.val[i + 1].num * ret.val[i].den

====
